---- MODULE Spec2Model ----
(***************************************************************************)
(* Sacramento Events Finder: the request / retry / validate pipeline.      *)
(*                                                                         *)
(* Texts are sequences of one-character strings.  A JSON string literal    *)
(* (quotes included) is one symbol of a text; every other lexeme is spelt  *)
(* character by character.  Optional[...] values are tuples of length 0    *)
(* (None) or 1.                                                            *)
(***************************************************************************)
EXTENDS Integers, Sequences, FiniteSets, TLC

VARIABLES
    pc,             \* position of the run (module import, main, search_events)
    OPENAI_API_KEY, \* Config.OPENAI_API_KEY, read from the environment
    tzKnown,        \* whether pytz recognises Config.TIMEZONE
    ctorOk,         \* whether OpenAI(api_key=...) constructs without raising
    max_retries,    \* OpenAIClient.max_retries
    attempt,        \* loop variable of search_events
    log,            \* requests issued and sleeps taken, in order
    results,        \* the outcome of each finished attempt, in order
    response,       \* Optional[str]: what search_events returned
    formatted_json, \* Optional[str]: what process_response returned
    output,         \* the blocks main (or the interpreter) printed, in order
    clean_json,     \* Optional[str]: what extract_json returned inside parse_json
    printed,        \* the lines process_response printed
    diagnostic,     \* Optional[str]: the raw text main printed on a JSON failure
    search_returned,\* search_events has returned to main
    interrupted,    \* Optional[int]: Len(log) when a KeyboardInterrupt was raised
    exitStatus,     \* the process exit status, -1 while running
    now,            \* the wall clock: an index into Clock
    config,         \* the attributes of Config the prompt is built from
    client,         \* Optional[OpenAIClient]: the object main line 55 made
    user_prompt,    \* the local of search_events, <<>> until line 32 has run
    builds          \* the calls of build_event_search_prompt so far

vars == <<pc, OPENAI_API_KEY, tzKnown, ctorOk, max_retries, attempt, log,
          results, response, formatted_json, clean_json, printed, output,
          diagnostic, search_returned, interrupted, exitStatus, now, config,
          client, user_prompt, builds>>

None == <<>>
Some(x) == <<x>>

(***************************************************************************)
(* Bounds of the model.                                                    *)
(***************************************************************************)
RetriesBound == 3
MaxPieces == 4
MaxEvents == 2

(***************************************************************************)
(* Text helpers.                                                           *)
(***************************************************************************)

\* What Python's \s and str.strip() treat as whitespace, within the alphabet.
Whitespace == {" ", "\n"}

Rep(c, n) == [i \in 1..n |-> c]

RECURSIVE Concat(_)
Concat(ss) == IF ss = <<>> THEN <<>> ELSE Head(ss) \o Concat(Tail(ss))

Min(S) == CHOOSE x \in S : \A y \in S : x <= y
Max(S) == CHOOSE x \in S : \A y \in S : x >= y

\* str.startswith
StartsWith(t, p) == Len(t) >= Len(p) /\ SubSeq(t, 1, Len(p)) = p

\* The first index from i on that holds no whitespace (Len(t) + 1 if none).
RECURSIVE SkipWS(_, _)
SkipWS(t, i) ==
    IF i <= Len(t) /\ t[i] \in Whitespace THEN SkipWS(t, i + 1) ELSE i

\* The last index up to i that holds no whitespace (0 if none).
RECURSIVE SkipWSBack(_, _)
SkipWSBack(t, i) ==
    IF i >= 1 /\ t[i] \in Whitespace THEN SkipWSBack(t, i - 1) ELSE i

\* str.strip()
Strip(t) == SubSeq(t, SkipWS(t, 1), SkipWSBack(t, Len(t)))

Occurrences(t, pat, from) ==
    {i \in from..(Len(t) - Len(pat) + 1) : SubSeq(t, i, i + Len(pat) - 1) = pat}

\* re.sub(pat + r'\s*', '', t), from index `from` on: every leftmost
\* non-overlapping occurrence of pat, with the whitespace that follows it, is
\* removed; the result is not scanned again.
RECURSIVE SubFrom(_, _, _)
SubFrom(t, pat, from) ==
    LET occ == Occurrences(t, pat, from)
    IN  IF occ = {} THEN SubSeq(t, from, Len(t))
        ELSE SubSeq(t, from, Min(occ) - 1)
                \o SubFrom(t, pat, SkipWS(t, Min(occ) + Len(pat)))

SubFence(t, pat) == SubFrom(t, pat, 1)

\* The backquote character of a markdown fence, written "^" in texts.
BQ == "^"
FenceJson == <<BQ, BQ, BQ, "j", "s", "o", "n">>
FenceBare == <<BQ, BQ, BQ>>

Positions(t, c) == {i \in 1..Len(t) : t[i] = c}

\* re.search(r'\{.*\}', t) without re.DOTALL: '.' does not match a newline.
BraceSearchNoDotAll(t) ==
    LET Ends(i) == {j \in Positions(t, "}") :
                      j > i /\ \A k \in i..j : t[k] # "\n"}
        starts == {i \in Positions(t, "{") : Ends(i) # {}}
    IN  IF starts = {} THEN None
        ELSE Some(SubSeq(t, Min(starts), Max(Ends(Min(starts)))))

\* re.search(r'\{.*\}', t, re.DOTALL): with DOTALL '.' matches every
\* character, so the leftmost match starts at the first '{' that has a '}'
\* after it and, '.*' being greedy, ends at the last '}' of the text.  None
\* when no '{' is followed by a '}'.
BraceSearch(t) ==
    LET starts == {i \in Positions(t, "{") :
                     \E j \in Positions(t, "}") : j > i}
    IN  IF starts = {} THEN None
        ELSE Some(SubSeq(t, Min(starts), Max(Positions(t, "}"))))

\* JSONHandler.extract_json
extract_json(text) ==
    LET t1 == SubFence(text, FenceJson)
        t2 == SubFence(t1, FenceBare)
        json_match == BraceSearch(t2)
    IN  IF json_match # None THEN json_match[1] ELSE Strip(t2)

(***************************************************************************)
(* JSON values as json.loads builds them.  A dict is the sequence of its   *)
(* members in insertion order.                                             *)
(***************************************************************************)
NullV == [t |-> "null"]
BoolV(b) == [t |-> "bool", b |-> b]
NumV(n) == [t |-> "num", n |-> n]
StrV(s) == [t |-> "str", s |-> s]
ListV(items) == [t |-> "list", items |-> items]
ObjV(members) == [t |-> "obj", members |-> members]
Member(k, v) == [k |-> k, val |-> v]

\* JSONHandler.validate_event_structure: required_fields
required_fields ==
    <<"title", "description", "start_time", "end_time", "venue", "address",
      "estimated_size", "cost", "is_free", "is_sold_out", "ticket_link",
      "organizers", "instagram_handles", "vibe_description">>

\* The strings that occur in texts.  A string literal is the one symbol
\* Quote(s); no literal holds a brace, a backquote or an escape.
StrNames ==
    {required_fields[i] : i \in 1..Len(required_fields)}
        \cup {"events", "top events", "search_date", "location", "x", "a", "@h"}
QuoteOf == [s \in StrNames |-> "\"" \o s \o "\""]
Quote(s) == QuoteOf[s]
StrLits == {Quote(s) : s \in StrNames}
UnquoteOf == [lit \in StrLits |-> CHOOSE s \in StrNames : Quote(s) = lit]
Unquote(lit) == UnquoteOf[lit]

\* Python's `k in s` for two strings: k is a substring of s.
Contains(s, k) ==
    \/ s = k
    \/ <<s, k>> \in {<<"top events", "events">>,
                     <<"vibe_description", "description">>}

DigitSyms == <<"0", "1", "2", "3", "4", "5", "6", "7", "8", "9">>
IsDigit(c) == \E d \in 1..10 : DigitSyms[d] = c
DigitVal(c) == (CHOOSE d \in 1..10 : DigitSyms[d] = c) - 1

(***************************************************************************)
(* json.loads on a text.  Numbers are unsigned integers: the alphabet has  *)
(* no sign and no '.', and no text of the model puts an exponent after a   *)
(* digit.                                                                  *)
(***************************************************************************)
At(t, i) == IF i >= 1 /\ i <= Len(t) THEN t[i] ELSE "EOF"

WordAt(t, i, w) == i + Len(w) - 1 <= Len(t) /\ SubSeq(t, i, i + Len(w) - 1) = w

Fail(i) == [ok |-> FALSE, val |-> NullV, next |-> i]
Ok(v, i) == [ok |-> TRUE, val |-> v, next |-> i]

RECURSIVE DigitRun(_, _, _)
DigitRun(t, i, acc) ==
    IF IsDigit(At(t, i)) THEN DigitRun(t, i + 1, acc * 10 + DigitVal(t[i]))
    ELSE Ok(NumV(acc), i)

\* dict(pairs): a repeated key keeps its first position and its last value.
RECURSIVE ObjPut(_, _, _)
ObjPut(members, k, v) ==
    IF members = <<>> THEN <<Member(k, v)>>
    ELSE IF Head(members).k = k THEN <<Member(k, v)>> \o Tail(members)
    ELSE <<Head(members)>> \o ObjPut(Tail(members), k, v)

RECURSIVE ParseValue(_, _)
RECURSIVE ParseItems(_, _, _)
RECURSIVE ParseMembers(_, _, _)

\* json.scanner.py_make_scanner._scan_once
ParseValue(t, i) ==
    LET c == At(t, i)
    IN  IF c \in StrLits THEN Ok(StrV(Unquote(c)), i + 1)
        ELSE IF c = "{" THEN
            LET j == SkipWS(t, i + 1)
            IN  IF At(t, j) = "}" THEN Ok(ObjV(<<>>), j + 1)
                ELSE ParseMembers(t, j, <<>>)
        ELSE IF c = "[" THEN
            LET j == SkipWS(t, i + 1)
            IN  IF At(t, j) = "]" THEN Ok(ListV(<<>>), j + 1)
                ELSE ParseItems(t, j, <<>>)
        ELSE IF WordAt(t, i, <<"n", "u", "l", "l">>) THEN Ok(NullV, i + 4)
        ELSE IF WordAt(t, i, <<"t", "r", "u", "e">>) THEN Ok(BoolV(TRUE), i + 4)
        ELSE IF WordAt(t, i, <<"f", "a", "l", "s", "e">>)
             THEN Ok(BoolV(FALSE), i + 5)
        ELSE IF c = "0" THEN Ok(NumV(0), i + 1)
        ELSE IF IsDigit(c) THEN DigitRun(t, i, 0)
        ELSE Fail(i)

\* json.decoder.JSONArray, from the first element on
ParseItems(t, i, acc) ==
    LET r == ParseValue(t, i)
    IN  IF ~r.ok THEN r
        ELSE LET j == SkipWS(t, r.next)
                 items == Append(acc, r.val)
             IN  IF At(t, j) = "]" THEN Ok(ListV(items), j + 1)
                 ELSE IF At(t, j) = "," THEN ParseItems(t, SkipWS(t, j + 1), items)
                 ELSE Fail(j)

\* json.decoder.JSONObject, from the first key on
ParseMembers(t, i, acc) ==
    IF At(t, i) \notin StrLits THEN Fail(i)
    ELSE LET key == Unquote(t[i])
             j == SkipWS(t, i + 1)
         IN  IF At(t, j) # ":" THEN Fail(j)
             ELSE LET r == ParseValue(t, SkipWS(t, j + 1))
                  IN  IF ~r.ok THEN r
                      ELSE LET k == SkipWS(t, r.next)
                               members == ObjPut(acc, key, r.val)
                           IN  IF At(t, k) = "}" THEN Ok(ObjV(members), k + 1)
                               ELSE IF At(t, k) = ","
                                    THEN ParseMembers(t, SkipWS(t, k + 1), members)
                               ELSE Fail(k)

\* json.loads: one value, whitespace around it, nothing after it.
loads(t) ==
    LET r == ParseValue(t, SkipWS(t, 1))
    IN  IF ~r.ok THEN r
        ELSE IF SkipWS(t, r.next) = Len(t) + 1 THEN r
        ELSE Fail(SkipWS(t, r.next))

\* JSONHandler.parse_json: Optional[value].  Python's None is both the
\* failure result and the value of the JSON text null.  The variant tells the
\* two apart.
parse_json_null_kept(json_string) ==
    LET r == loads(extract_json(json_string))
    IN  IF r.ok THEN Some(r.val) ELSE None
parse_json(json_string) ==
    LET r == loads(extract_json(json_string))
    IN  IF r.ok /\ r.val.t # "null" THEN Some(r.val) ELSE None

(***************************************************************************)
(* JSONHandler.validate_event_structure                                    *)
(***************************************************************************)
Msg(m, i, f) == [msg |-> m, event |-> i, field |-> f]

HasKey(members, k) == \E i \in 1..Len(members) : members[i].k = k
GetKey(members, k) ==
    members[CHOOSE i \in 1..Len(members) : members[i].k = k].val

\* Python's `k in v`: "yes", "no", or "raise" (TypeError) where v is not a
\* container.
In(k, v) ==
    CASE v.t = "obj" -> IF HasKey(v.members, k) THEN "yes" ELSE "no"
      [] v.t = "list" ->
            IF \E i \in 1..Len(v.items) :
                  v.items[i].t = "str" /\ v.items[i].s = k
            THEN "yes" ELSE "no"
      [] v.t = "str" -> IF Contains(v.s, k) THEN "yes" ELSE "no"
      [] OTHER -> "raise"

\* The first required field, in order, that is not `in` the event: its index,
\* or 0 when every field is.
FirstNotIn(event) ==
    LET bad == {f \in 1..Len(required_fields) :
                   In(required_fields[f], event) # "yes"}
    IN  IF bad = {} THEN 0 ELSE Min(bad)

IsList(members, k) == HasKey(members, k) /\ GetKey(members, k).t = "list"
IsBool(members, k) == HasKey(members, k) /\ GetKey(members, k).t = "bool"

\* The body of the loop over data["events"] for event number i (from 1):
\* <<>> when the event passes, else the one message printed before returning
\* False.  An exception (a TypeError of `in`, an AttributeError of .get on a
\* value that is no dict) is caught by the function's own handler.
CheckEvent(i, event) ==
    LET f == FirstNotIn(event)
    IN  IF f # 0 THEN
            IF In(required_fields[f], event) = "raise"
            THEN <<Msg("validation_error", 0, "")>>
            ELSE <<Msg("missing_field", i, required_fields[f])>>
        ELSE IF event.t # "obj" THEN <<Msg("validation_error", 0, "")>>
        ELSE IF ~IsList(event.members, "instagram_handles")
             THEN <<Msg("invalid_instagram_handles", i, "")>>
        ELSE IF ~IsBool(event.members, "is_free")
             THEN <<Msg("invalid_is_free", i, "")>>
        ELSE IF ~IsBool(event.members, "is_sold_out")
             THEN <<Msg("invalid_is_sold_out", i, "")>>
        ELSE <<>>

RECURSIVE CheckEvents(_, _)
CheckEvents(events, i) ==
    IF i > Len(events) THEN <<>>
    ELSE LET m == CheckEvent(i, events[i])
         IN  IF m # <<>> THEN m ELSE CheckEvents(events, i + 1)

\* The lines printed once every event has passed.
EventCountLines(event_count) ==
    <<Msg("validated", event_count, "")>> \o
        (IF event_count < 10 THEN <<Msg("info_fewer_than_max", event_count, "")>>
         ELSE IF event_count = 10 THEN <<Msg("info_maximum_found", event_count, "")>>
         ELSE <<>>)

\* Lines 113-123, reached once every event has passed: the count is
\* reported and True is returned whatever the count is.  The variant rejects
\* a list of more than ten events.
AcceptUpToMax(event_count) ==
    IF event_count > 10
    THEN [valid |-> FALSE,
          printed |-> <<Msg("too_many_events", event_count, "")>>]
    ELSE [valid |-> TRUE, printed |-> EventCountLines(event_count)]
Accept(event_count) ==
    [valid |-> TRUE, printed |-> EventCountLines(event_count)]

\* [valid |-> what the function returns, printed |-> the lines it prints]
validate_event_structure(data) ==
    LET no(m) == [valid |-> FALSE, printed |-> <<m>>]
    IN  IF In("events", data) = "raise" THEN no(Msg("validation_error", 0, ""))
        ELSE IF In("events", data) = "no" THEN no(Msg("missing_events", 0, ""))
        ELSE IF data.t # "obj" THEN no(Msg("validation_error", 0, ""))
        ELSE LET events == GetKey(data.members, "events")
             IN  IF events.t # "list" THEN no(Msg("events_not_list", 0, ""))
                 ELSE LET m == CheckEvents(events.items, 1)
                      IN  IF m # <<>> THEN [valid |-> FALSE, printed |-> m]
                          ELSE Accept(Len(events.items))

(***************************************************************************)
(* JSONHandler.format_json: json.dumps(data, indent=2, ensure_ascii=False) *)
(***************************************************************************)
RECURSIVE Digits(_)
Digits(n) ==
    IF n < 10 THEN <<DigitSyms[n + 1]>>
    ELSE Digits(n \div 10) \o <<DigitSyms[(n % 10) + 1]>>

NewlineIndent(indent, level) == <<"\n">> \o Rep(" ", indent * level)

RECURSIVE Dumps(_, _, _)
RECURSIVE DumpItems(_, _, _)
RECURSIVE DumpMembers(_, _, _)

Dumps(v, indent, level) ==
    CASE v.t = "null" -> <<"n", "u", "l", "l">>
      [] v.t = "bool" -> IF v.b THEN <<"t", "r", "u", "e">>
                         ELSE <<"f", "a", "l", "s", "e">>
      [] v.t = "num" -> Digits(v.n)
      [] v.t = "str" -> <<Quote(v.s)>>
      [] v.t = "list" ->
            IF v.items = <<>> THEN <<"[", "]">>
            ELSE <<"[">> \o DumpItems(v.items, indent, level + 1)
                 \o NewlineIndent(indent, level) \o <<"]">>
      [] v.t = "obj" ->
            IF v.members = <<>> THEN <<"{", "}">>
            ELSE <<"{">> \o DumpMembers(v.members, indent, level + 1)
                 \o NewlineIndent(indent, level) \o <<"}">>

DumpItems(items, indent, level) ==
    NewlineIndent(indent, level) \o Dumps(Head(items), indent, level)
        \o (IF Tail(items) = <<>> THEN <<>>
            ELSE <<",">> \o DumpItems(Tail(items), indent, level))

DumpMembers(members, indent, level) ==
    NewlineIndent(indent, level) \o <<Quote(Head(members).k), ":", " ">>
        \o Dumps(Head(members).val, indent, level)
        \o (IF Tail(members) = <<>> THEN <<>>
            ELSE <<",">> \o DumpMembers(Tail(members), indent, level))

format_json(data) == Dumps(data, 2, 0)

\* process_response with a validation that blocks: None for a value that
\* validate_event_structure rejects.
process_response_strict(response_text) ==
    LET data == parse_json(response_text)
    IN  IF data = None
        THEN [result |-> None, printed |-> <<Msg("failed_to_parse", 0, "")>>]
        ELSE LET checked == validate_event_structure(data[1])
             IN  [result |-> IF checked.valid THEN Some(format_json(data[1]))
                             ELSE None,
                  printed |-> checked.printed]

\* JSONHandler.process_response: result is the Optional[str] it returns,
\* printed the lines it and validate_event_structure print.
process_response(response_text) ==
    LET data == parse_json(response_text)
    IN  IF data = None
        THEN [result |-> None, printed |-> <<Msg("failed_to_parse", 0, "")>>]
        ELSE LET checked == validate_event_structure(data[1])
             IN  [result |-> Some(format_json(data[1])),
                  printed |-> checked.printed \o
                      (IF ~checked.valid
                       THEN <<Msg("validation_failed_will_display", 0, "")>>
                       ELSE <<>>)]

(***************************************************************************)
(* Inputs: what the environment and the remote service can supply.         *)
(***************************************************************************)

\* Values of the OPENAI_API_KEY environment variable ("" when unset).
KeyValues ==
    {<<>>, <<"s", "k">>, <<"p", "k", "-", "x">>, <<"s", "k", "-", "x">>}

\* json.dumps(v, separators=(',', ':')): a reply with no whitespace.
RECURSIVE Compact(_)
RECURSIVE CompactItems(_)
RECURSIVE CompactMembers(_)
Compact(v) ==
    CASE v.t = "list" -> <<"[">> \o CompactItems(v.items) \o <<"]">>
      [] v.t = "obj" -> <<"{">> \o CompactMembers(v.members) \o <<"}">>
      [] OTHER -> Dumps(v, 0, 0)
CompactItems(items) ==
    IF items = <<>> THEN <<>>
    ELSE Compact(Head(items))
            \o (IF Tail(items) = <<>> THEN <<>>
                ELSE <<",">> \o CompactItems(Tail(items)))
CompactMembers(members) ==
    IF members = <<>> THEN <<>>
    ELSE <<Quote(Head(members).k), ":">> \o Compact(Head(members).val)
            \o (IF Tail(members) = <<>> THEN <<>>
                ELSE <<",">> \o CompactMembers(Tail(members)))

\* An event with every required field, as the prompt asks for it.
FullEvent ==
    ObjV([i \in 1..Len(required_fields) |->
            Member(required_fields[i],
                   CASE required_fields[i] = "instagram_handles" ->
                            ListV(<<StrV("@h")>>)
                     [] required_fields[i] = "is_free" -> BoolV(TRUE)
                     [] required_fields[i] = "is_sold_out" -> BoolV(FALSE)
                     [] OTHER -> StrV("x"))])

Without(event, fields) ==
    ObjV(SelectSeq(event.members, LAMBDA m : m.k \notin fields))

With(event, field, v) ==
    ObjV([i \in 1..Len(event.members) |->
            IF event.members[i].k = field THEN Member(field, v)
            ELSE event.members[i]])

\* The elements an "events" list is built from: well-formed, one or several
\* fields missing, a field of the wrong type, and elements that are no object.
EventKinds ==
    <<FullEvent,
      Without(FullEvent, {"venue"}),
      Without(FullEvent, {"title", "venue", "is_free"}),
      With(FullEvent, "instagram_handles", StrV("x")),
      With(FullEvent, "is_free", StrV("x")),
      With(FullEvent, "is_sold_out", NumV(0)),
      NumV(1),
      StrV("title"),
      NullV,
      ListV([i \in 1..Len(required_fields) |-> StrV(required_fields[i])])>>

RECURSIVE SeqsUpTo(_, _)
SeqsUpTo(n, k) ==
    IF n = 0 THEN {<<>>}
    ELSE LET shorter == SeqsUpTo(n - 1, k)
         IN  shorter \cup {Append(q, i) : q \in {r \in shorter : Len(r) = n - 1},
                                          i \in 1..k}

Collection(events) ==
    ObjV(<<Member("search_date", StrV("x")), Member("location", StrV("x")),
           Member("events", ListV(events))>>)

\* Replies that hold an event collection of up to MaxEvents elements.
Collections ==
    {Collection([i \in 1..Len(q) |-> EventKinds[q[i]]]) :
        q \in SeqsUpTo(MaxEvents, Len(EventKinds))}

\* Replies that hold ten events and more, each well-formed, told apart by
\* their titles.
EventTitles ==
    <<"x", "a", "@h", "events", "top events", "search_date", "location",
      "title", "description", "start_time", "end_time", "venue">>
LongCollection(n) ==
    Collection([k \in 1..n |-> With(FullEvent, "title", StrV(EventTitles[k]))])
LongCollections == {LongCollection(n) : n \in {9, 10, 11, 12}}

\* Replies that are a JSON value of another shape.
OtherValues ==
    {NullV, BoolV(TRUE), NumV(7), StrV("x"), StrV("events"), StrV("top events"),
     ListV(<<>>), ListV(<<StrV("events"), NumV(10)>>), ObjV(<<>>),
     ObjV(<<Member("x", NumV(1))>>), ObjV(<<Member("events", NumV(1))>>),
     ObjV(<<Member("events", NullV)>>), ObjV(<<Member("events", ObjV(<<>>))>>),
     ObjV(<<Member("events", StrV("x"))>>)}

Fenced(body) == FenceJson \o <<"\n">> \o body \o <<"\n">> \o FenceBare
InProse(body) == <<"a", " ">> \o body \o <<" ", "a">>

\* The texts a value reaches the program as.
TextsOf(v) ==
    {Compact(v), Dumps(v, 2, 0), Fenced(Compact(v)), InProse(Compact(v))}
CollectionTexts(v) == {Compact(v), Fenced(Dumps(v, 2, 0))}

\* Short texts over the characters extract_json looks at.
Pieces ==
    <<FenceJson, FenceBare, <<BQ>>, <<"{">>, <<"}">>, <<" ">>, <<"\n">>, <<"a">>>>
PieceTexts ==
    {Concat([i \in 1..Len(q) |-> Pieces[q[i]]]) :
        q \in SeqsUpTo(MaxPieces, Len(Pieces))}

\* 'prefix ```json {"a":1} ``` suffix'
ExampleText ==
    <<"p", "r", "e", "f", "i", "x", " ">> \o FenceJson
        \o <<" ", "{", Quote("a"), ":", "1", "}", " ">> \o FenceBare
        \o <<" ", "s", "u", "f", "f", "i", "x">>
\* '{not json}'
NotJsonText == <<"{", "n", "o", "t", " ", "j", "s", "o", "n", "}">>
\* prose with no braces
ProseText == <<"n", "o", " ", "a">>

(***************************************************************************)
(* DateUtils, EventURLs, Config and PromptBuilder.  A day name, a month     *)
(* name, a domain and each literal stretch of the prompt template is one    *)
(* symbol of a text; numbers are spelt digit by digit.                      *)
(***************************************************************************)

\* Instants the wall clock shows in Config.TIMEZONE, in the order they pass.
Clock ==
    <<[year |-> 2025, month |-> 11, day |-> 14, weekday |-> 5, hour |-> 9],
      [year |-> 2025, month |-> 11, day |-> 14, weekday |-> 5, hour |-> 23],
      [year |-> 2025, month |-> 11, day |-> 15, weekday |-> 6, hour |-> 0],
      [year |-> 2026, month |-> 1, day |-> 5, weekday |-> 1, hour |-> 9]>>

\* strftime("%A") and strftime("%B")
DayNames ==
    <<"Monday", "Tuesday", "Wednesday", "Thursday", "Friday", "Saturday",
      "Sunday">>
MonthNames ==
    <<"January", "February", "March", "April", "May", "June", "July",
      "August", "September", "October", "November", "December">>

\* str(n) of a non-negative int, and the zero-padded "%d" / "%m" of strftime
Str(n) == Digits(n)
Pad2(n) == IF n < 10 THEN <<"0">> \o Digits(n) ELSE Digits(n)

\* DateUtils.get_today_info, for the instant the clock shows (iso_format, which
\* is the one entry that holds the time of day, is left out: nothing reads
\* it).
get_today_info(instant) ==
    LET day_name == <<DayNames[instant.weekday]>>
        month_name == <<MonthNames[instant.month]>>
    IN  [date |-> Str(instant.year) \o <<"-">> \o Pad2(instant.month)
                    \o <<"-">> \o Pad2(instant.day),
         day_name |-> day_name,
         month_name |-> month_name,
         day |-> Pad2(instant.day),
         year |-> Str(instant.year),
         full_date |-> day_name \o <<",", " ">> \o month_name \o <<" ">>
                    \o Pad2(instant.day) \o <<",", " ">> \o Str(instant.year),
         display_format |-> month_name \o <<" ">> \o Pad2(instant.day)
                    \o <<",", " ">> \o Str(instant.year)]

\* EventURLs.DOMAINS
DOMAINS ==
    <<"eventbrite.com", "sactoday.6amcity.com", "sacramento365.com",
      "downtownsac.org", "visitsacramento.com", "sacbee.com", "yelp.com",
      "sacramento.downtowngrid.com", "kcra.com", "golden1center.com",
      "aceofspadessac.com", "channel24sac.com", "cresttheater.com",
      "harlows.com", "safecreditunionconventioncenter.com",
      "thundervalleyresort.com", "mondaviarts.org", "broadwaysacramento.com",
      "bstreettheatre.org", "sacobserver.com", "abc10.com",
      "ticketmaster.com", "calexpo.com">>

\* EventURLs.get_domains_formatted: " OR ".join(f"site:{domain}" ...)
RECURSIVE get_domains_formatted(_)
get_domains_formatted(domains) ==
    IF domains = <<>> THEN <<>>
    ELSE <<"site:", Head(domains)>>
            \o (IF Tail(domains) = <<>> THEN <<>>
                ELSE <<" OR ">> \o get_domains_formatted(Tail(domains)))

\* The class attributes the prompt and the request are built from (the domain
\* list is an attribute of EventURLs; US_STATE is Config.STATE).
TheConfig ==
    [MAX_EVENTS |-> 10, CITY |-> "Sacramento", US_STATE |-> "California",
     DOMAINS |-> DOMAINS]

\* Other values the same attributes can be given.
Configs ==
    {TheConfig}
        \cup [MAX_EVENTS : {7, 10, 30}, CITY : {"Sacramento", "Davis"},
              US_STATE : {"California"},
              DOMAINS : {DOMAINS, <<"eventbrite.com">>, <<>>}]

\* The f-string of build_event_search_prompt (lines 28-249).  The variant
\* writes the count of events as the literal 10.
PromptLiteralCount(today_info, cfg) ==
    <<"You are an expert ... ">> \o today_info.full_date \o <<" (">>
        \o today_info.date \o <<") ... You MUST return EXACTLY 10 events ...">>

Prompt(today_info, cfg) ==
    <<"You are an expert event re ... ODAY'S DATE: ">> \o
        today_info.full_date \o <<" (">> \o today_info.date \o
        <<") CURRENT DAY: ">> \o today_info.day_name \o
        <<" SEARCH FOR: Events happening on ">> \o today_info.date \o
        <<" ONLY Your task is to sear ... ning TODAY - ">> \o
        today_info.date \o <<" (">> \o today_info.day_name \o
        <<") in Sacramento, Californi ... turn EXACTLY ">> \o
        Str(cfg.MAX_EVENTS) \o
        <<" events - no more, no less ... ening TODAY (">> \o
        today_info.date \o
        <<") - verify the date carefu ... tain exactly ">> \o
        Str(cfg.MAX_EVENTS) \o
        <<" items 4. DOUBLE-CHECK: Ev ... match TODAY (">> \o
        today_info.date \o
        <<") before including it PRIO ... in: - events ">> \o
        today_info.day_name \o <<" ">> \o today_info.month_name \o <<" ">> \o
        today_info.day \o <<" ">> \o today_info.year \o
        <<" Sacramento site:[domain] - events today ">> \o today_info.date \o
        <<" Sacramento site:[domain] - ">> \o today_info.day_name \o
        <<" events Sacramento site:[d ... ese domains: ">> \o
        get_domains_formatted(cfg.DOMAINS) \o
        <<" 2. Perform DEEP web searc ...  today, this ">> \o
        today_info.day_name \o <<", ">> \o today_info.month_name \o
        <<" ">> \o today_info.day \o
        <<" pages - Check event detai ... icators like ">> \o
        today_info.day_name \o <<", ">> \o today_info.month_name \o
        <<" ">> \o today_info.day \o <<" or ">> \o today_info.date \o
        <<" 3. Find events that are happening TODAY (">> \o
        today_info.date \o <<" - ">> \o today_info.day_name \o
        <<"). - ABSOLUTE PRIORITY: On ...  from TODAY (">> \o
        today_info.date \o
        <<") - CRITICAL: Verify each  ... happening on ">> \o
        today_info.date \o <<" (">> \o today_info.day_name \o <<", ">> \o
        today_info.month_name \o <<" ">> \o today_info.day \o <<", ">> \o
        today_info.year \o
        <<") - Check the event date m ... g fewer than ">> \o
        Str(cfg.MAX_EVENTS) \o
        <<" events - It's better to r ... at happen on ">> \o
        today_info.day_name \o
        <<"s: - Ice skating rinks ope ... turn the TOP ">> \o
        Str(cfg.MAX_EVENTS) \o
        <<" events using this combine ...  reach UP TO ">> \o
        Str(cfg.MAX_EVENTS) \o
        <<" total events (only if the ...  searchdate: ">> \o
        today_info.date \o <<", location: ">> \o <<cfg.CITY>> \o <<", ">> \o
        <<cfg.US_STATE>> \o
        <<", events: [ { title: Event ... ening TODAY (">> \o
        today_info.date \o <<") - Return UP TO ">> \o Str(cfg.MAX_EVENTS) \o
        <<" events, but ONLY events f ... f fewer than ">> \o
        Str(cfg.MAX_EVENTS) \o
        <<" events exist TODAY, retur ... ening TODAY (">> \o
        today_info.date \o
        <<") - verify dates carefully ... slots (up to ">> \o
        Str(cfg.MAX_EVENTS) \o
        <<" total) with highest-scori ...  event is on ">> \o
        today_info.date \o <<" before including it - DO  ... m wrong dates">>

\* PromptBuilder.build_event_search_prompt: it reads the clock (line 23) and
\* the class attributes itself.
build_event_search_prompt == Prompt(get_today_info(Clock[now]), config)

(***************************************************************************)
(* The program: module import, main, OpenAIClient.search_events.           *)
(***************************************************************************)

\* main.py:91: the raw text is cut to this many characters
DiagLimit == 500

\* The replies of the remote service in a whole run.
ResponseTexts ==
    {Compact(Collection(<<>>)),
     Fenced(Compact(Collection(<<FullEvent>>))),
     Dumps(Collection(<<Without(FullEvent, {"venue"})>>), 2, 0),
     ExampleText, NotJsonText, ProseText,
     <<"n", "u", "l", "l">>, <<"7">>,
     Rep("a", DiagLimit + 1)}

\* What one call of client.responses.create can end in: it raises, or it
\* returns a response without output_text, with an empty one, or with a text.
ApiError == [kind |-> "error", text |-> <<>>]
ApiReplies ==
    {[kind |-> "missing", text |-> <<>>], [kind |-> "empty", text |-> <<>>]}
        \cup {[kind |-> "text", text |-> t] : t \in ResponseTexts}

\* OpenAIClient.__init__ (lines 19-23)
OpenAIClient ==
    [api_key |-> OPENAI_API_KEY, allowed_domains |-> config.DOMAINS]

\* The call of lines 39-53: its input and its allowed_domains filter.  The
\* variant builds the prompt anew for each attempt.
RequestRebuilt(i) ==
    [kind |-> "request", attempt |-> i, wait |-> 0,
     input |-> build_event_search_prompt,
     allowed_domains |-> IF client = None THEN <<>>
                         ELSE client[1].allowed_domains]
Request(i) ==
    [kind |-> "request", attempt |-> i, wait |-> 0, input |-> user_prompt,
     allowed_domains |-> IF client = None THEN <<>>
                         ELSE client[1].allowed_domains]
Sleep(i, w) == [kind |-> "sleep", attempt |-> i, wait |-> w]

\* Config.validate: TRUE when it returns, FALSE when it raises ValueError.
\* The variant leaves out the prefix test of line 42.
ValidateNoPrefixCheck(key) == key # <<>>
validate(key) == key # <<>> /\ StartsWith(key, <<"s", "k", "-">>)

\* search_events line 68: wait_time = 2 ** attempt
BackoffLinear(i) == 2 * i
Backoff(i) == 2 ^ i

\* search_events line 56: hasattr(response, 'output_text') and response.output_text
HasOutputTextAttrOnly(reply) == reply.kind # "missing"
HasOutputText(reply) == reply.kind = "text" /\ reply.text # <<>>

\* `except Exception` (search_events line 64, main line 117): the classes of
\* the exceptions raised here that derive from Exception.  KeyboardInterrupt
\* and SystemExit derive from BaseException only.
CatchesEverything(exc) == TRUE
ExceptException(exc) ==
    exc \in {"ValueError", "UnknownTimeZoneError", "OpenAIError", "APIError"}

\* main line 91: response[:500] + "..." if len(response) > 500 else response
DiagnosticWhole(text) == text
DiagnosticText(text) ==
    IF Len(text) > DiagLimit
    THEN SubSeq(text, 1, DiagLimit) \o <<".", ".", ".">>
    ELSE text

Init ==
    /\ pc = "import"
    /\ OPENAI_API_KEY \in KeyValues
    /\ tzKnown \in BOOLEAN
    /\ ctorOk \in BOOLEAN
    /\ max_retries \in 0..RetriesBound
    /\ attempt = 0
    /\ log = <<>>
    /\ results = <<>>
    /\ response = None
    /\ formatted_json = None
    /\ clean_json = None
    /\ printed = <<>>
    /\ output = <<>>
    /\ diagnostic = None
    /\ search_returned = FALSE
    /\ interrupted = None
    /\ exitStatus = -1
    /\ now = 1
    /\ config = TheConfig
    /\ client = None
    /\ user_prompt = <<>>
    /\ builds = <<>>

env == <<OPENAI_API_KEY, tzKnown, ctorOk, max_retries, now, config>>
built == <<client, user_prompt, builds>>
search == <<attempt, log, results, response, search_returned>>
json == <<formatted_json, clean_json, printed, diagnostic>>

\* sys.exit(status), or the interpreter ending the process.
Exit(status, blocks) ==
    /\ pc' = "exited"
    /\ exitStatus' = status
    /\ output' = output \o blocks

\* main's handlers (lines 108-125) for an exception raised inside its try.
MainHandles(exc) ==
    IF exc = "KeyboardInterrupt" THEN Exit(0, <<"cancelled_block">>)
    ELSE IF ExceptException(exc)
         THEN Exit(1, <<"unexpected_error_block", "traceback">>)
    ELSE Exit(1, <<"traceback">>)

\* main.py line 13 imports src.config, whose last line calls
\* Config.validate(): a ValueError there is raised outside main, and the
\* interpreter prints the traceback and exits with status 1.
Import ==
    /\ pc = "import"
    /\ IF validate(OPENAI_API_KEY)
       THEN /\ pc' = "validate"
            /\ output' = Append(output, "header")
            /\ UNCHANGED exitStatus
       ELSE Exit(1, <<"traceback">>)
    /\ UNCHANGED <<env, built, search, json, interrupted>>

\* main lines 45-48
MainValidate ==
    /\ pc = "validate"
    /\ IF validate(OPENAI_API_KEY)
       THEN pc' = "search_info" /\ UNCHANGED <<exitStatus, output>>
       ELSE MainHandles("ValueError")
    /\ UNCHANGED <<env, built, search, json, interrupted>>

\* main line 51: print_search_info, DateUtils.get_today_info
PrintSearchInfo ==
    /\ pc = "search_info"
    /\ IF tzKnown
       THEN pc' = "init_client" /\ UNCHANGED <<exitStatus, output>>
       ELSE MainHandles("UnknownTimeZoneError")
    /\ UNCHANGED <<env, built, search, json, interrupted>>

\* main lines 54-57: OpenAIClient()
InitClient ==
    /\ pc = "init_client"
    /\ IF ctorOk
       THEN /\ client' = Some(OpenAIClient)
            /\ pc' = "search_events"
            /\ UNCHANGED <<exitStatus, output>>
       ELSE MainHandles("OpenAIError") /\ UNCHANGED client
    /\ UNCHANGED <<env, user_prompt, builds, search, json, interrupted>>

\* user_prompt = PromptBuilder.build_event_search_prompt(), with a record of
\* the call: the date fields and the attributes it read, the string it gave.
Build ==
    /\ user_prompt' = build_event_search_prompt
    /\ builds' = Append(builds, [today_info |-> get_today_info(Clock[now]),
                                 config |-> config,
                                 prompt |-> build_event_search_prompt])

\* main line 64, search_events line 32: the prompt is built, the loop starts.
EnterSearch ==
    /\ pc = "search_events"
    /\ pc' = "loop"
    /\ attempt' = 0
    /\ Build
    /\ UNCHANGED <<env, client, log, results, response, search_returned, json,
                   output, interrupted, exitStatus>>

\* search_events returns `value` to main (line 59, 73 or 75).
Return(value) ==
    /\ response' = value
    /\ search_returned' = TRUE
    /\ pc' = "returned"

\* search_events line 34: the next iteration issues its request (line 39), or
\* the loop is over and line 75 returns None.
LoopHead ==
    /\ pc = "loop"
    /\ IF attempt < max_retries
       THEN /\ log' = Append(log, Request(attempt))
            /\ pc' = "in_flight"
            /\ UNCHANGED <<response, search_returned>>
       ELSE Return(None) /\ UNCHANGED log
    /\ UNCHANGED <<env, built, attempt, results, json, output, interrupted,
                   exitStatus>>

\* The handler of search_events (lines 64-73) for an exception raised by the
\* request of this attempt.  The variant sleeps after every failed attempt,
\* the last included.
RetryHandlerAlwaysSleeps ==
    /\ log' = Append(log, Sleep(attempt, Backoff(attempt)))
    /\ pc' = "sleeping"
    /\ UNCHANGED <<response, search_returned>>
RetryHandler ==
    IF attempt < max_retries - 1
    THEN /\ log' = Append(log, Sleep(attempt, Backoff(attempt)))
         /\ pc' = "sleeping"
         /\ UNCHANGED <<response, search_returned>>
    ELSE Return(None) /\ UNCHANGED log

\* client.responses.create raises an error of the service or the transport.
ApiRaises ==
    /\ pc = "in_flight"
    /\ results' = Append(results, ApiError)
    /\ IF ExceptException("APIError")
       THEN RetryHandler /\ UNCHANGED <<output, exitStatus>>
       ELSE MainHandles("APIError") /\ UNCHANGED <<log, response, search_returned>>
    /\ UNCHANGED <<env, built, attempt, json, interrupted>>

\* client.responses.create returns (lines 55-62): a non-empty output_text is
\* returned to main; otherwise the loop goes on to the next attempt.
ApiReturnsNoReturn(reply) ==
    /\ pc = "in_flight"
    /\ results' = Append(results, reply)
    /\ attempt' = attempt + 1
    /\ pc' = "loop"
    /\ response' = IF HasOutputText(reply) THEN Some(reply.text) ELSE response
    /\ UNCHANGED search_returned
    /\ UNCHANGED <<env, built, log, json, output, interrupted, exitStatus>>

ApiReturns(reply) ==
    /\ pc = "in_flight"
    /\ results' = Append(results, reply)
    /\ IF HasOutputText(reply)
       THEN Return(Some(reply.text)) /\ UNCHANGED attempt
       ELSE /\ attempt' = attempt + 1
            /\ pc' = "loop"
            /\ UNCHANGED <<response, search_returned>>
    /\ UNCHANGED <<env, built, log, json, output, interrupted, exitStatus>>

\* time.sleep(wait_time) is over (line 70): the next iteration.
SleepDone ==
    /\ pc = "sleeping"
    /\ attempt' = attempt + 1
    /\ pc' = "loop"
    /\ UNCHANGED <<env, built, log, results, response, search_returned, json,
                   output, interrupted, exitStatus>>

\* main lines 66-78
CheckResponse ==
    /\ pc = "returned"
    /\ IF response = None
       THEN Exit(1, <<"search_failed_block">>)
       ELSE pc' = "process" /\ UNCHANGED <<exitStatus, output>>
    /\ UNCHANGED <<env, built, search, json, interrupted>>

\* main lines 82-93: JSONHandler.process_response and the check of its result
ProcessResponseNoExit ==
    /\ pc = "process"
    /\ \E r \in {process_response(response[1])} :
           /\ formatted_json' = r.result
           /\ printed' = r.printed
           /\ clean_json' = Some(extract_json(response[1]))
           /\ diagnostic' = IF r.result = None
                            THEN Some(DiagnosticText(response[1]))
                            ELSE None
           /\ pc' = "print"
           /\ UNCHANGED <<exitStatus, output>>
    /\ UNCHANGED <<env, built, search, interrupted>>

ProcessResponse ==
    /\ pc = "process"
    /\ \E r \in {process_response(response[1])} :
           /\ formatted_json' = r.result
           /\ printed' = r.printed
           /\ clean_json' = Some(extract_json(response[1]))
           /\ IF r.result = None
              THEN /\ diagnostic' = Some(DiagnosticText(response[1]))
                   /\ Exit(1, <<"json_failed_block", "raw_response">>)
              ELSE /\ pc' = "print"
                   /\ UNCHANGED <<diagnostic, exitStatus, output>>
    /\ UNCHANGED <<env, built, search, interrupted>>

\* main lines 96-106; main returns and the process ends with status 0.
PrintResults ==
    /\ pc = "print"
    /\ Exit(0, <<"results_block">>)
    /\ UNCHANGED <<env, built, search, json, interrupted>>

\* The positions inside main's try block (lines 40-106), search_events
\* included.
InsideTry ==
    {"validate", "search_info", "init_client", "search_events", "loop",
     "in_flight", "sleeping", "returned", "process", "print"}

\* The user interrupts the run: KeyboardInterrupt is raised where the program
\* is.  Raised by the request of an attempt (inside the try of search_events)
\* it meets the handler of line 64 first; raised anywhere else, the sleep of
\* that handler included, it reaches main's handlers.  Each block of console
\* output is one step; an interrupt during the imports or inside one of
\* main's handlers is outside the try block and is not part of the model.
KeyboardInterrupt ==
    /\ pc \in InsideTry
    /\ interrupted' = Some(Len(log))
    /\ IF pc = "in_flight" /\ ExceptException("KeyboardInterrupt")
       THEN RetryHandler /\ UNCHANGED <<output, exitStatus>>
       ELSE MainHandles("KeyboardInterrupt")
                /\ UNCHANGED <<log, response, search_returned>>
    /\ UNCHANGED <<env, built, attempt, results, json>>

\* Time passes: the clock in Config.TIMEZONE shows the next instant.
Tick ==
    /\ pc # "exited"
    /\ now < Len(Clock)
    /\ now' = now + 1
    /\ UNCHANGED <<pc, OPENAI_API_KEY, tzKnown, ctorOk, max_retries, config,
                   built, search, json, output, interrupted, exitStatus>>

Next ==
    \/ Import
    \/ MainValidate
    \/ PrintSearchInfo
    \/ InitClient
    \/ EnterSearch
    \/ LoopHead
    \/ ApiRaises
    \/ \E reply \in ApiReplies : ApiReturns(reply)
    \/ SleepDone
    \/ CheckResponse
    \/ ProcessResponse
    \/ PrintResults
    \/ KeyboardInterrupt
    \/ Tick

Spec == Init /\ [][Next]_vars

\* The steps of search_events and of the remote service that are bound to
\* happen: every statement of the function runs to its end, every call of
\* client.responses.create returns or raises, every sleep is over after its
\* time.  An interrupt by the user and the passing of a day are not.
SearchStep ==
    \/ EnterSearch
    \/ LoopHead
    \/ ApiRaises
    \/ \E reply \in ApiReplies : ApiReturns(reply)
    \/ SleepDone

SpecFair == Spec /\ WF_vars(SearchStep)

(***************************************************************************)
(* JSONHandler.process_response on its own: the run from the point where   *)
(* search_events has returned a text on its first attempt, for every text  *)
(* of ProcessInputs.                                                       *)
(***************************************************************************)
ProcessInputs ==
    PieceTexts
        \cup UNION {CollectionTexts(v) : v \in Collections \cup LongCollections}
        \cup UNION {TextsOf(v) : v \in OtherValues \cup {Collection(<<FullEvent>>)}}
        \cup {ExampleText, NotJsonText, ProseText}

InitProcess ==
    /\ pc = "process"
    /\ OPENAI_API_KEY = <<"s", "k", "-", "x">>
    /\ tzKnown = TRUE
    /\ ctorOk = TRUE
    /\ max_retries = 1
    /\ attempt = 0
    /\ now = 1
    /\ config = TheConfig
    /\ client = Some(OpenAIClient)
    /\ user_prompt = build_event_search_prompt
    /\ builds = <<[today_info |-> get_today_info(Clock[now]), config |-> config,
                   prompt |-> user_prompt]>>
    /\ log = <<Request(0)>>
    /\ \E t \in ProcessInputs :
          /\ response = Some(t)
          /\ results = <<[kind |-> "text", text |-> t]>>
    /\ formatted_json = None
    /\ clean_json = None
    /\ printed = <<>>
    /\ output = <<"header">>
    /\ diagnostic = None
    /\ search_returned = TRUE
    /\ interrupted = None
    /\ exitStatus = -1

NextProcess ==
    \/ ProcessResponse
    \/ PrintResults

SpecProcess == InitProcess /\ [][NextProcess]_vars

(***************************************************************************)
(* PromptBuilder.build_event_search_prompt on its own: calls of it, one    *)
(* after another while time passes, for every configuration of Configs.    *)
(***************************************************************************)
MaxBuilds == 2

InitPrompt ==
    /\ pc = "prompt"
    /\ OPENAI_API_KEY = <<"s", "k", "-", "x">>
    /\ tzKnown = TRUE
    /\ ctorOk = TRUE
    /\ max_retries = 1
    /\ attempt = 0
    /\ log = <<>>
    /\ results = <<>>
    /\ response = None
    /\ formatted_json = None
    /\ clean_json = None
    /\ printed = <<>>
    /\ output = <<>>
    /\ diagnostic = None
    /\ search_returned = FALSE
    /\ interrupted = None
    /\ exitStatus = -1
    /\ now = 1
    /\ config \in Configs
    /\ client = None
    /\ user_prompt = <<>>
    /\ builds = <<>>

BuildPrompt ==
    /\ pc = "prompt"
    /\ Len(builds) < MaxBuilds
    /\ Build
    /\ UNCHANGED <<pc, env, client, search, json, output, interrupted,
                   exitStatus>>

NextPrompt ==
    \/ BuildPrompt
    \/ Tick

SpecPrompt == InitPrompt /\ [][NextPrompt]_vars

(***************************************************************************)
(* Properties.                                                             *)
(***************************************************************************)
Requests(l) == SelectSeq(l, LAMBDA e : e.kind = "request")
IsPrefix(a, b) == Len(a) <= Len(b) /\ SubSeq(b, 1, Len(a)) = a
AllOfKind(kinds) == \A k \in 1..Len(results) : results[k].kind \in kinds
Exited == pc = "exited"

\* What search_events does when each of m attempts raises: request 0, a
\* sleep of 1, request 1, a sleep of 2, request 2, a sleep of 4, ..., request
\* m - 1.
ErrorRun(m) ==
    [j \in 1..(IF m = 0 THEN 0 ELSE 2 * m - 1) |->
        IF j % 2 = 1 THEN Request((j - 1) \div 2)
        ELSE Sleep((j \div 2) - 1, 2 ^ ((j \div 2) - 1))]

\* C1: while every attempt so far has raised, the requests and sleeps are
\* those of ErrorRun(max_retries) in order; once search_events has returned,
\* it has issued exactly max_retries requests with a sleep of 2^i between
\* attempt i and attempt i + 1, it has returned None, and nothing is issued
\* afterwards.
C1_ExhaustedRetries ==
    AllOfKind({"error"}) =>
        /\ IsPrefix(log, ErrorRun(max_retries))
        /\ search_returned =>
              /\ response = None
              /\ log = ErrorRun(max_retries)
              /\ Len(results) = max_retries
              /\ Len(Requests(log)) = max_retries

C1_Witness ==
    /\ Exited /\ search_returned /\ AllOfKind({"error"})
    /\ max_retries = 3 /\ Len(results) = 3
    /\ log = <<Request(0), Sleep(0, 1), Request(1), Sleep(1, 2), Request(2)>>

\* C2: an attempt that brought a non-empty output_text is the last attempt:
\* search_events has returned its text, the request of that attempt is the
\* last entry of the log (no later request, no later sleep), and every
\* earlier attempt brought no text.
C2_FirstTextReturned ==
    \A k \in 1..Len(results) :
        results[k].kind = "text" =>
            /\ k = Len(results)
            /\ search_returned
            /\ response = Some(results[k].text)
            /\ Len(Requests(log)) = k
            /\ log[Len(log)] = Request(k - 1)

C2_Witness ==
    /\ Exited /\ Len(results) = 3
    /\ results[1].kind = "error" /\ results[2].kind = "empty"
    /\ results[3].kind = "text"
    /\ response = Some(results[3].text)

\* C3: search_events never returns an empty text, and when every attempt
\* brought a response with a missing or an empty output_text it returns None
\* after max_retries requests.
C3_EmptyIsFailure ==
    /\ response # None => response[1] # <<>>
    /\ (search_returned /\ AllOfKind({"missing", "empty"})) =>
          /\ response = None
          /\ Len(results) = max_retries
          /\ Len(Requests(log)) = max_retries

C3_Witness ==
    /\ Exited /\ search_returned /\ response = None
    /\ Len(results) = 3
    /\ results[1].kind = "empty" /\ results[2].kind = "missing"
    /\ results[3].kind = "empty"

\* C4: after attempt k - 1 brought a response with a missing or an empty
\* output_text, the request of the next attempt is preceded by a sleep of
\* 2^(k-1) seconds.
C4_BackoffAfterEmpty ==
    \A k \in 1..Len(results) :
        (results[k].kind \in {"missing", "empty"} /\ Len(Requests(log)) > k) =>
            \E j \in 2..Len(log) :
                /\ log[j] = Request(k)
                /\ log[j - 1] = Sleep(k - 1, 2 ^ (k - 1))

Printed(block) == \E i \in 1..Len(output) : output[i] = block

KnownNonJson == {NotJsonText, ProseText, Rep("a", DiagLimit + 1)}

\* C9: when search_events returned a text whose extracted span is not JSON
\* and the run ended without an interrupt, process_response returned None,
\* no request followed the one that brought the text, main printed the raw
\* text cut to its first 500 characters (followed by "..." when it is longer),
\* and the exit status is 1.
C9_ParseFailure ==
    (/\ Exited /\ interrupted = None /\ response # None
     /\ \/ response[1] \in KnownNonJson
        \/ ~loads(extract_json(response[1])).ok) =>
        /\ formatted_json = None
        /\ exitStatus = 1
        /\ Len(Requests(log)) = Len(results)
        /\ Printed("json_failed_block") /\ ~Printed("results_block")
        /\ diagnostic # None
        /\ LET shown == diagnostic[1]
               n == IF Len(response[1]) < DiagLimit THEN Len(response[1])
                    ELSE DiagLimit
           IN  /\ SubSeq(shown, 1, n) = SubSeq(response[1], 1, n)
               /\ SubSeq(shown, n + 1, Len(shown)) =
                      IF Len(response[1]) > DiagLimit THEN <<".", ".", ".">>
                      ELSE <<>>

C9_Witness ==
    /\ Exited /\ interrupted = None /\ exitStatus = 1
    /\ response = Some(Rep("a", DiagLimit + 1))
    /\ diagnostic = Some(Rep("a", DiagLimit) \o <<".", ".", ".">>)

\* C10: a run that ended with a non-zero status printed a bordered error
\* block.
C10_BorderedBlock ==
    (Exited /\ exitStatus # 0) =>
        \/ Printed("unexpected_error_block")
        \/ Printed("search_failed_block")
        \/ Printed("json_failed_block")

Processed == clean_json # None

\* C7 as stated: for every text whose extracted span parses to a JSON value,
\* process_response returns a formatted string.
C7_EveryJsonValueFormatted ==
    Processed =>
        \A parsed \in {loads(clean_json[1])} :
            parsed.ok => formatted_json # None

\* C7, amended: for every text whose extracted span parses to a JSON value
\* other than null, process_response returns a string, whatever
\* validate_event_structure said of the value, and the string is JSON text
\* of that same value.
C7_SoftValidation ==
    Processed =>
        \A parsed \in {loads(clean_json[1])} :
            (parsed.ok /\ parsed.val.t # "null") =>
                /\ formatted_json # None
                /\ \A shown \in {loads(formatted_json[1])} :
                      shown.ok /\ shown.val = parsed.val

C7_Witness ==
    /\ Processed /\ formatted_json # None
    /\ response = Some(Compact(Collection(<<Without(FullEvent, {"venue"})>>)))
    /\ printed = <<Msg("missing_field", 1, "venue"),
                   Msg("validation_failed_will_display", 0, "")>>

NoFences(t) == SubFence(SubFence(t, FenceJson), FenceBare)
FirstOpen(t) == Min(Positions(t, "{"))
LastClose(t) == Max(Positions(t, "}"))
SpanPresent(t) ==
    /\ Positions(t, "{") # {} /\ Positions(t, "}") # {}
    /\ FirstOpen(t) < LastClose(t)

KeyPrefix == <<"s", "k", "-">>

\* C11: with a credential that is absent or does not start with 'sk-', the
\* run never leaves the import of the configuration module: no OpenAIClient
\* is constructed, no prompt is built, no request is issued and nothing
\* comes back, and once the run has ended its exit status is 1.
C11_NoClientNoRequest ==
    (OPENAI_API_KEY = <<>> \/ ~StartsWith(OPENAI_API_KEY, KeyPrefix)) =>
        /\ pc \in {"import", "exited"}
        /\ client = None
        /\ builds = <<>>
        /\ log = <<>> /\ results = <<>>
        /\ ~search_returned
        /\ Exited => exitStatus = 1

C11_Witness ==
    /\ Exited /\ exitStatus = 1
    /\ OPENAI_API_KEY = <<"p", "k", "-", "x">>
    /\ client = None /\ log = <<>>

\* Python's `pat in t` for two texts
Within(t, pat) == Occurrences(t, pat, 1) # {}

PrintedLine(m) == \E k \in 1..Len(printed) : printed[k] = m

\* C13: for a parsed object whose "events" is a list, every required field
\* that an event object lacks is reported by a line of its own, for every
\* event of the list.
C13_AllViolationsLogged ==
    Processed =>
        \A parsed \in {loads(clean_json[1])} :
            (/\ parsed.ok /\ parsed.val.t = "obj"
             /\ IsList(parsed.val.members, "events")) =>
                \A events \in {GetKey(parsed.val.members, "events").items} :
                    \A i \in 1..Len(events) :
                        events[i].t = "obj" =>
                            \A f \in 1..Len(required_fields) :
                                ~HasKey(events[i].members, required_fields[f]) =>
                                    PrintedLine(Msg("missing_field", i,
                                                    required_fields[f]))

\* The positions inside the retry loop of search_events.
InLoop == {"loop", "in_flight", "sleeping"}

SameRequests ==
    /\ Len(builds) <= 1
    /\ \A j \in 1..Len(log) :
          log[j].kind = "request" =>
              /\ builds # <<>> /\ client # None
              /\ log[j].input = builds[1].prompt
              /\ log[j].allowed_domains = client[1].allowed_domains
              /\ log[j].allowed_domains = DOMAINS
              /\ \A k \in 1..Len(log) :
                    log[k].kind = "request" =>
                        [log[k] EXCEPT !.attempt = 0] =
                            [log[j] EXCEPT !.attempt = 0]

LoopFrame ==
    (pc \in InLoop) =>
        UNCHANGED <<user_prompt, client, builds, max_retries, config,
                    OPENAI_API_KEY>>

\* C14: the prompt is built once in a run, before the first request; every
\* request of the run carries that prompt and the domain list of the client,
\* so any two requests differ in the attempt number only; and a step inside
\* the retry loop changes neither the prompt, nor the client and its domain
\* list, nor max_retries, nor the configuration.
C14_RequestBuiltOnce == []SameRequests /\ [][LoopFrame]_vars

C14_Witness ==
    /\ Exited /\ Len(Requests(log)) = 3 /\ now = 3
    /\ builds[1].today_info.date =
          <<"2", "0", "2", "5", "-", "1", "1", "-", "1", "4">>
    /\ log[Len(log)] = Request(2)
    /\ log[Len(log)].input = builds[1].prompt
    /\ log[1].input = log[Len(log)].input

WellFormedEvent(event) ==
    /\ event.t = "obj"
    /\ \A f \in 1..Len(required_fields) : HasKey(event.members, required_fields[f])
    /\ GetKey(event.members, "instagram_handles").t = "list"
    /\ GetKey(event.members, "is_free").t = "bool"
    /\ GetKey(event.members, "is_sold_out").t = "bool"

\* C15: for a parsed object whose "events" is a list of well-formed events,
\* of whatever length (more than ten included), validate_event_structure
\* returns True and reports the count, no validation failure is printed, and
\* process_response returns a string that is JSON text of the same events in
\* the same order.
C15_CountNotEnforced ==
    Processed =>
        \A parsed \in {loads(clean_json[1])} :
            (/\ parsed.ok /\ parsed.val.t = "obj"
             /\ IsList(parsed.val.members, "events")) =>
                \A events \in {GetKey(parsed.val.members, "events").items} :
                    (\A i \in 1..Len(events) : WellFormedEvent(events[i])) =>
                        /\ validate_event_structure(parsed.val).valid
                        /\ printed # <<>>
                        /\ printed[1] = Msg("validated", Len(events), "")
                        /\ ~PrintedLine(Msg("validation_failed_will_display",
                                            0, ""))
                        /\ formatted_json # None
                        /\ \A shown \in {loads(formatted_json[1])} :
                              /\ shown.ok /\ shown.val.t = "obj"
                              /\ GetKey(shown.val.members, "events").items
                                    = events

C15_Witness ==
    /\ Exited /\ exitStatus = 0
    /\ response = Some(Compact(LongCollection(11)))
    /\ printed = <<Msg("validated", 11, "")>>
    /\ formatted_json = Some(format_json(LongCollection(11)))

InFlight == Len(Requests(log)) - Len(results)

BoundedSearch ==
    /\ attempt <= max_retries
    /\ Len(Requests(log)) <= max_retries
    /\ max_retries = 0 =>
          /\ log = <<>>
          /\ search_returned => response = None
    /\ InFlight \in {0, 1}
    /\ InFlight = 1 => (pc = "in_flight" \/ interrupted # None)
    /\ \A j \in 1..Len(log) :
          log[j].kind = "sleep" => log[j].attempt < max_retries - 1
    /\ pc = "sleeping" => Len(Requests(log)) < max_retries
    /\ search_returned => (log = <<>> \/ log[Len(log)].kind = "request")

\* C16: a call of search_events comes to its end (it returns, or the run is
\* ended by an exception it does not catch) for every max_retries from 0 on
\* and every sequence of errors and empty responses; it issues at most
\* max_retries requests, none when max_retries is 0 (it then returns None);
\* at most one request is without its outcome at any time; and no sleep
\* follows the last attempt.
C16_Terminates ==
    /\ []BoundedSearch
    /\ (pc = "search_events") ~> (search_returned \/ Exited)

C16_Witness ==
    /\ search_returned /\ response = None /\ max_retries = 3
    /\ Len(results) = 3
    /\ results[1].kind = "error" /\ results[2].kind = "empty"
    /\ results[3].kind = "error"
    /\ log = <<Request(0), Sleep(0, 1), Request(1), Request(2)>>

BraceFree(t) == Positions(t, "{") = {} /\ Positions(t, "}") = {}

\* C17: process_response returns None exactly when the extracted span is not
\* JSON or is JSON for null; the run then ends with status 1 after the JSON
\* failure block, and otherwise with status 0 after the results.  So a text
\* without braces that is a number, a string, a boolean or an array ends
\* with 0, and the text null with 1.
C17_NullIffNoValue ==
    Processed =>
        \A parsed \in {loads(clean_json[1])} :
        \A novalue \in {~parsed.ok \/ parsed.val.t = "null"} :
            /\ (formatted_json = None) <=> novalue
            /\ Exited =>
                  /\ exitStatus = (IF novalue THEN 1 ELSE 0)
                  /\ Printed("json_failed_block") <=> novalue
                  /\ Printed("results_block") <=> ~novalue
            /\ (/\ Exited /\ BraceFree(response[1]) /\ parsed.ok
                 /\ parsed.val.t \in {"num", "str", "bool", "list"}) =>
                    exitStatus = 0 /\ formatted_json # None
            /\ (Exited /\ parsed.ok /\ parsed.val.t = "null") =>
                    exitStatus = 1 /\ formatted_json = None

C17_Witness ==
    /\ Exited /\ exitStatus = 1
    /\ response = Some(<<"n", "u", "l", "l">>)
    /\ clean_json = response
    /\ formatted_json = None
    /\ Printed("json_failed_block")

====
